---- MODULE Spec2Model ----
(***************************************************************************)
(* Model of carving_filters.h: the BiquadFilter value type (Update, Reset) *)
(* and the MakeLowPass coefficient designer, over IEEE-754 binary32        *)
(* arithmetic with round-to-nearest-even, as a C++ `float` on a target    *)
(* with FLT_EVAL_METHOD == 0 and no fused multiply-add contraction.        *)
(***************************************************************************)
EXTENDS Integers, Sequences, FiniteSets, TLC

(***************************************************************************)
(* binary32 values.  A float is its three IEEE fields: sign (1 bit),       *)
(* biased exponent (8 bits), fraction (23 bits).  Every NaN is folded into *)
(* one canonical quiet NaN: the program never inspects a NaN payload.      *)
(***************************************************************************)
F(s, e, m) == [sign |-> s, exp |-> e, man |-> m]

NaN == F(0, 255, 2^22)

Inf(s) == F(s, 255, 0)

Zero(s) == F(s, 0, 0)

IsNaN(x) == x.exp = 255 /\ x.man # 0

IsInf(x) == x.exp = 255 /\ x.man = 0

IsZero(x) == x.exp = 0 /\ x.man = 0

IsFinite(x) == x.exp # 255

\* The significand as an integer and the exponent of its last bit:
\* the value of a finite x is (-1)^sign * Sig(x) * 2^Ex(x).
Sig(x) == IF x.exp = 0 THEN x.man ELSE 2^23 + x.man

Ex(x) == IF x.exp = 0 THEN -149 ELSE x.exp - 150

\* The number of bits of n, 0 <= n < 2^30.
BitLen(n) == CHOOSE k \in 0..30 : (k = 0 \/ n >= 2^(k - 1)) /\ n < 2^k

Xor(a, b) == IF a = b THEN 0 ELSE 1

\* n with its last bit set when `sticky`: bits shifted out below n were not all 0.
Jam(n, sticky) == IF sticky /\ n % 2 = 0 THEN n + 1 ELSE n

\* The fields of a result with biased exponent E: an infinity on overflow.
Encode(s, E, man) == IF E >= 255 THEN Inf(s) ELSE F(s, E, man)

\* The float (-1)^s * kept * 2^q for a rounded significand kept <= 2^24, where
\* kept < 2^23 only if q = -149 (a subnormal).
Pack(s, kept, q) ==
    IF kept = 2^24 THEN Encode(s, q + 151, 0)
    ELSE IF kept >= 2^23 THEN Encode(s, q + 150, kept - 2^23)
    ELSE F(s, 0, kept)

\* kept0 + rem/(2*half) rounded to the nearest integer, ties to even.
RoundHalfEven(kept0, rem, half) ==
    IF rem > half \/ (rem = half /\ kept0 % 2 = 1) THEN kept0 + 1 ELSE kept0

\* The number of low bits of an L-bit M * 2^e that a float cannot keep: the
\* result has 24 significant bits and its last bit is worth at least 2^-149.
DropBits(L, e) == IF e + L - 24 < -149 THEN -149 - e ELSE L - 24

\* M * 2^e rounded after dropping sh bits (sh < 0: M has bits to spare).
RoundShift(s, M, e, sh) ==
    IF sh > 30 THEN Zero(s)
    ELSE IF sh <= 0 THEN Pack(s, M * 2^(-sh), e + sh)
    ELSE Pack(s, RoundHalfEven(M \div 2^sh, M % 2^sh, 2^(sh - 1)), e + sh)

\* The float nearest to (-1)^s * M * 2^e, ties to even; 0 <= M < 2^30.
\* Overflow gives an infinity, underflow a subnormal or a signed zero.
RoundPack(s, M, e) ==
    IF M = 0 THEN Zero(s) ELSE RoundShift(s, M, e, DropBits(BitLen(M), e))

\* A subnormal's significand shifted left by sh bits, to 24 bits.
NormSub(man, sh) == <<man * 2^sh, -149 - sh>>

\* A finite nonzero x as <<m, e>> with 2^23 <= m < 2^24 and |x| = m * 2^e.
NormSig(x) ==
    IF x.exp # 0 THEN <<2^23 + x.man, x.exp - 150>>
    ELSE NormSub(x.man, 24 - BitLen(x.man))

FNeg(x) == IF IsNaN(x) THEN NaN ELSE F(1 - x.sign, x.exp, x.man)

FAbs(x) == IF IsNaN(x) THEN NaN ELSE F(0, x.exp, x.man)

\* The 48-bit product hi * 2^24 + mid * 2^12 + lo as 30 bits and a sticky bit.
MulSum(hi, mid, low) ==
    Jam((hi + mid \div 4096 + low \div 2^24) * 64 + (low % 2^24) \div 2^18,
        low % 2^18 # 0)

\* The product of two 24-bit significands, from their 12-bit halves.
MulParts(ah, al, bh, bl) ==
    MulSum(ah * bh, ah * bl + al * bh,
           al * bl + ((ah * bl + al * bh) % 4096) * 4096)

MulSig(s, na, nb) ==
    RoundPack(s, MulParts(na[1] \div 4096, na[1] % 4096,
                          nb[1] \div 4096, nb[1] % 4096),
              na[2] + nb[2] + 18)

\* a * b
FMul(a, b) ==
    IF IsNaN(a) \/ IsNaN(b) THEN NaN
    ELSE IF IsInf(a) \/ IsInf(b)
         THEN IF IsZero(a) \/ IsZero(b) THEN NaN ELSE Inf(Xor(a.sign, b.sign))
    ELSE IF IsZero(a) \/ IsZero(b) THEN Zero(Xor(a.sign, b.sign))
    ELSE MulSig(Xor(a.sign, b.sign), NormSig(a), NormSig(b))

\* n shifted right by d bits, the bits shifted out kept as a sticky last bit.
ShiftRightJam(n, d) ==
    IF d = 0 THEN n
    ELSE IF d > 30 THEN (IF n # 0 THEN 1 ELSE 0)
    ELSE Jam(n \div 2^d, n % 2^d # 0)

\* (-1)^sx * A * 2^e + (-1)^sy * B * 2^e; an exact zero difference is +0.
AddAligned(sx, sy, A, B, e) ==
    RoundPack(IF sx = sy \/ A > B THEN sx ELSE IF A < B THEN sy ELSE 0,
              IF sx = sy THEN A + B ELSE IF A > B THEN A - B ELSE B - A,
              e)

\* x + y for finite nonzero x, y with Ex(x) >= Ex(y): three guard bits, the
\* smaller operand aligned to the larger.
AddOrdered(x, y) ==
    AddAligned(x.sign, y.sign, Sig(x) * 8,
               ShiftRightJam(Sig(y) * 8, Ex(x) - Ex(y)), Ex(x) - 3)

\* a + b
FAdd(a, b) ==
    IF IsNaN(a) \/ IsNaN(b) THEN NaN
    ELSE IF IsInf(a) THEN (IF IsInf(b) /\ a.sign # b.sign THEN NaN ELSE a)
    ELSE IF IsInf(b) THEN b
    ELSE IF IsZero(a) /\ IsZero(b)
         THEN (IF a.sign = 1 /\ b.sign = 1 THEN Zero(1) ELSE Zero(0))
    ELSE IF IsZero(a) THEN b
    ELSE IF IsZero(b) THEN a
    ELSE IF Ex(a) >= Ex(b) THEN AddOrdered(a, b)
    ELSE AddOrdered(b, a)

\* a - b
FSub(a, b) == FAdd(a, FNeg(b))

\* One step of long division in base 2^7: <<q, r>> with r < d < 2^24 becomes
\* the quotient and remainder with seven more quotient bits.
DivStep(qr, d) ==
    <<qr[1] * 128 + (qr[2] * 128) \div d, (qr[2] * 128) % d>>

\* n / d for 24-bit significands: 29 quotient bits, the last one sticky.
DivQuot(qr) == Jam(qr[1], qr[2] # 0)

DivSig(s, na, nb) ==
    RoundPack(s,
              DivQuot(DivStep(DivStep(DivStep(DivStep(
                  <<na[1] \div nb[1], na[1] % nb[1]>>,
                  nb[1]), nb[1]), nb[1]), nb[1])),
              na[2] - nb[2] - 28)

\* a / b
FDiv(a, b) ==
    IF IsNaN(a) \/ IsNaN(b) THEN NaN
    ELSE IF IsInf(a) THEN (IF IsInf(b) THEN NaN ELSE Inf(Xor(a.sign, b.sign)))
    ELSE IF IsInf(b) THEN Zero(Xor(a.sign, b.sign))
    ELSE IF IsZero(b)
         THEN (IF IsZero(a) THEN NaN ELSE Inf(Xor(a.sign, b.sign)))
    ELSE IF IsZero(a) THEN Zero(Xor(a.sign, b.sign))
    ELSE DivSig(Xor(a.sign, b.sign), NormSig(a), NormSig(b))

\* The order of finite and infinite values as a signed integer key.
Key(x) == IF x.sign = 1 THEN -(x.exp * 2^23 + x.man) ELSE x.exp * 2^23 + x.man

\* a == b, a < b, a > b as the C++ operators: false when either side is a NaN.
FEq(a, b) == ~IsNaN(a) /\ ~IsNaN(b) /\ Key(a) = Key(b)

FLt(a, b) == ~IsNaN(a) /\ ~IsNaN(b) /\ Key(a) < Key(b)

FGt(a, b) == FLt(b, a)

(***************************************************************************)
(* Float literals of the source and of its tests, as binary32 encodings.   *)
(***************************************************************************)
\* 0.0f, 1.0f, 2.0f, 0.5f, -2.0f
FZero == Zero(0)

FOne == F(0, 127, 0)

FTwo == F(0, 128, 0)

FHalf == F(0, 126, 0)

FMinusTwo == F(1, 128, 0)

\* static_cast<float>(M_PI) = 0x40490fdb = 3.14159274
PiF == F(0, 128, 4788187)

\* 12.0f, 200.0f, 0.707f: the arguments the tests pass to MakeLowPass
F12 == F(0, 130, 4194304)

F200 == F(0, 134, 4718592)

F0707 == F(0, 126, 3472884)

\* 0.9f, 1.1f, 1e-6f: the thresholds of the tests
F09 == F(0, 126, 6710886)

F11 == F(0, 127, 838861)

F1em6 == F(0, 107, 407485)

(***************************************************************************)
(* sinf and cosf of <cmath>.  The library is not part of the repository;   *)
(* what is fixed by IEEE-754 and by mathematics is modelled as such: a NaN *)
(* or an infinity gives NaN, and for |x| < 2^-12 the float nearest to      *)
(* sin x is x and the float nearest to cos x is 1.  For the other          *)
(* arguments that the modelled calls of MakeLowPass produce, the value is  *)
(* the one glibc 2.36 (x86-64) returns for that argument.                  *)
(***************************************************************************)
sinf(x) ==
    IF ~IsFinite(x) THEN NaN
    ELSE IF x.exp < 115 THEN x
    ELSE CASE x = F(0, 125, 4261115) -> F(0, 125, 3963602)  \* 0.376991123
           [] x = F(0, 117, 6297692) -> F(0, 117, 6297685)  \* 0.00170971034
           [] x = F(0, 127, 4788187) -> F(0, 127, 0)        \* 1.57079637
           [] x = F(0, 119, 6909621) -> F(0, 119, 6909492)  \* 0.00712379301
           [] x = F(0, 128, 4656419) -> F(0, 122, 43133)    \* 3.1101768
           [] x = F(0, 120, 6756638) -> F(0, 120, 6756136)  \* 0.0141051095
           [] x = F(0, 131, 8082386) -> F(0, 107, 3495485)  \* 31.4159279
           [] x = F(0, 124, 1172786) -> F(0, 124, 1140470)  \* 0.142475873

cosf(x) ==
    IF ~IsFinite(x) THEN NaN
    ELSE IF x.exp < 115 THEN FOne
    ELSE CASE x = F(0, 125, 4261115) -> F(0, 126, 7210453)
           [] x = F(0, 117, 6297692) -> F(0, 126, 8388583)
           [] x = F(0, 127, 4788187) -> F(1, 102, 3915054)
           [] x = F(0, 119, 6909621) -> F(0, 126, 8388182)
           [] x = F(0, 128, 4656419) -> F(1, 126, 8380329)
           [] x = F(0, 120, 6756638) -> F(0, 126, 8386939)
           [] x = F(0, 131, 8082386) -> F(0, 127, 0)
           [] x = F(0, 124, 1172786) -> F(0, 126, 8218612)

(***************************************************************************)
(* struct BiquadFilter                                                     *)
(***************************************************************************)
\* Mutant of BiquadFilter: b0 defaults to 0 like the other fields.
BiquadFilterZeroGain ==
    [b0 |-> FZero, b1 |-> FZero, b2 |-> FZero, a1 |-> FZero, a2 |-> FZero,
     z1 |-> FZero, z2 |-> FZero]

\* The default member initializers: b0 = 1, everything else 0.
BiquadFilter ==
    [b0 |-> FOne, b1 |-> FZero, b2 |-> FZero, a1 |-> FZero, a2 |-> FZero,
     z1 |-> FZero, z2 |-> FZero]

Fields == {"b0", "b1", "b2", "a1", "a2", "z1", "z2"}

Coefs(f) == <<f.b0, f.b1, f.b2, f.a1, f.a2>>

\* Mutant of Update: the feedback term of z1 is added, not subtracted.
UpdateFeedbackSign(f, sample) ==
    LET result == FAdd(FMul(sample, f.b0), f.z1)
        z1     == FAdd(FAdd(FMul(sample, f.b1), f.z2), FMul(f.a1, result))
        z2     == FSub(FMul(sample, f.b2), FMul(f.a2, result))
    IN  [filter |-> [f EXCEPT !.z1 = z1, !.z2 = z2], result |-> result]

\* Mutant of Update: z2 is computed from the z1 just assigned, not from result.
UpdateStaleResult(f, sample) ==
    LET result == FAdd(FMul(sample, f.b0), f.z1)
        z1     == FSub(FAdd(FMul(sample, f.b1), f.z2), FMul(f.a1, result))
        z2     == FSub(FMul(sample, f.b2), FMul(f.a2, z1))
    IN  [filter |-> [f EXCEPT !.z1 = z1, !.z2 = z2], result |-> result]

\* Mutant of Update: a guard flushes a non-finite delay state to zero.
UpdateFlushNonFinite(f, sample) ==
    LET result == FAdd(FMul(sample, f.b0), f.z1)
        z1     == FSub(FAdd(FMul(sample, f.b1), f.z2), FMul(f.a1, result))
        z2     == FSub(FMul(sample, f.b2), FMul(f.a2, result))
    IN  [filter |-> [f EXCEPT !.z1 = IF IsFinite(z1) THEN z1 ELSE FZero,
                              !.z2 = IF IsFinite(z2) THEN z2 ELSE FZero],
         result |-> result]

\* float Update(float sample): the filter after the call and the value returned.
Update(f, sample) ==
    LET result == FAdd(FMul(sample, f.b0), f.z1)
        z1     == FSub(FAdd(FMul(sample, f.b1), f.z2), FMul(f.a1, result))
        z2     == FSub(FMul(sample, f.b2), FMul(f.a2, result))
    IN  [filter |-> [f EXCEPT !.z1 = z1, !.z2 = z2], result |-> result]

\* Mutant of Reset: z2 is forgotten.
ResetOnlyZ1(f) == [f EXCEPT !.z1 = FZero]

\* void Reset()
Reset(f) == [f EXCEPT !.z1 = FZero, !.z2 = FZero]

\* Mutant of MakeLowPass: the raw coefficients are stored, not divided by a0.
MakeLowPassRaw(cutoffHz, sampleRateHz, q) ==
    LET omega    == FMul(FMul(FTwo, PiF), FDiv(cutoffHz, sampleRateHz))
        cosOmega == cosf(omega)
        alpha    == FDiv(sinf(omega), FMul(FTwo, q))
    IN  [BiquadFilter EXCEPT !.b0 = FMul(FSub(FOne, cosOmega), FHalf),
                             !.b1 = FSub(FOne, cosOmega),
                             !.b2 = FMul(FSub(FOne, cosOmega), FHalf),
                             !.a1 = FMul(FMinusTwo, cosOmega),
                             !.a2 = FSub(FOne, alpha)]

\* Mutant of MakeLowPass: the delay state starts at b0 instead of 0.
MakeLowPassDirty(cutoffHz, sampleRateHz, q) ==
    LET omega    == FMul(FMul(FTwo, PiF), FDiv(cutoffHz, sampleRateHz))
        cosOmega == cosf(omega)
        alpha    == FDiv(sinf(omega), FMul(FTwo, q))
        a0       == FAdd(FOne, alpha)
        b0       == FDiv(FMul(FSub(FOne, cosOmega), FHalf), a0)
    IN  [BiquadFilter EXCEPT !.b0 = b0,
                             !.b1 = FDiv(FSub(FOne, cosOmega), a0),
                             !.b2 = b0,
                             !.a1 = FDiv(FMul(FMinusTwo, cosOmega), a0),
                             !.a2 = FDiv(FSub(FOne, alpha), a0),
                             !.z1 = b0]

\* BiquadFilter MakeLowPass(float cutoffHz, float sampleRateHz, float q)
MakeLowPass(cutoffHz, sampleRateHz, q) ==
    LET omega    == FMul(FMul(FTwo, PiF), FDiv(cutoffHz, sampleRateHz))
        sinOmega == sinf(omega)
        cosOmega == cosf(omega)
        alpha    == FDiv(sinOmega, FMul(FTwo, q))
        b0       == FMul(FSub(FOne, cosOmega), FHalf)
        b1       == FSub(FOne, cosOmega)
        b2       == FMul(FSub(FOne, cosOmega), FHalf)
        a0       == FAdd(FOne, alpha)
        a1       == FMul(FMinusTwo, cosOmega)
        a2       == FSub(FOne, alpha)
    IN  [BiquadFilter EXCEPT !.b0 = FDiv(b0, a0), !.b1 = FDiv(b1, a0),
                             !.b2 = FDiv(b2, a0), !.a1 = FDiv(a1, a0),
                             !.a2 = FDiv(a2, a0)]

(***************************************************************************)
(* The inputs the model draws from.                                        *)
(***************************************************************************)
\* cutoffHz: 12, 50, 99, 0, 1000, 0.001
Cutoffs ==
    {F12, F(0, 132, 4718592), F(0, 133, 4587520), FZero, F(0, 136, 7995392),
     F(0, 117, 201327)}

\* sampleRateHz: 200, 44100, 0
Rates == {F200, F(0, 142, 2900992), FZero}

\* q: 0.707, 20, 0, 1e-40 (subnormal), FLT_MAX
FltMax == F(0, 254, 2^23 - 1)

Qs == {F0707, F(0, 131, 2097152), FZero, F(0, 0, 71362), FltMax}

\* The designs of the one-instance runs: cutoffHz 12, 0.001; sampleRateHz 200,
\* 0; q 0.707, 0, 1e-40
ExploreCutoffs == {F12, F(0, 117, 201327)}

ExploreRates == {F200, FZero}

ExploreQs == {F0707, FZero, F(0, 0, 71362)}

\* Update's argument: 0, 1, -0.707, FLT_MAX, +infinity
Samples == {FZero, FOne, F(1, 126, 3472884), FltMax, Inf(0)}

\* Values a caller stores into a field directly: 0.5, +infinity, NaN
FieldValues == {FHalf, Inf(0), NaN}

\* Update's argument in the two-instance runs: 0, 1, NaN
PairSamples == {FZero, FOne, NaN}

MaxSteps == 3

MaxWrites == 1

MaxPairSteps == 4

(***************************************************************************)
(* State.  A program holds BiquadFilter instances, one per channel, and    *)
(* calls their operations and assigns their public fields one at a time.   *)
(***************************************************************************)
VARIABLES
    flt,     \* channel -> the BiquadFilter instance of that channel
    origin,  \* channel -> how the instance was built
    hist,    \* channel -> the calls and field writes on it since it was built
    outs,    \* channel -> the values its Update calls returned, in order
    prev,    \* flt as it was before the last step
    last,    \* the last step and, for Update, what it returned
    test     \* the caller: "explore", "pair", "run", or the running test function

vars == <<flt, origin, hist, outs, prev, last, test>>

Chans == DOMAIN flt

UpdateOp(sample) == [op |-> "Update", sample |-> sample]

ResetOp == [op |-> "Reset", sample |-> FZero]

WriteOp(field, v) == [op |-> "Write", field |-> field, value |-> v]

\* The number of field writes in a history.
Writes(h) == Cardinality({i \in 1..Len(h) : h[i].op = "Write"})

\* Mutant of Store: z1 and z2 are shared by all instances (static members).
StoreShared(fl, ch, nf) ==
    [c \in DOMAIN fl |->
        IF c = ch THEN nf ELSE [fl[c] EXCEPT !.z1 = nf.z1, !.z2 = nf.z2]]

\* An instance's fields belong to that instance: a call on channel ch
\* replaces the filter of ch and no other.
Store(fl, ch, nf) == [fl EXCEPT ![ch] = nf]

\* flt[ch].Update(sample)
DoUpdate(ch, sample) ==
    LET r == Update(flt[ch], sample) IN
    /\ flt' = Store(flt, ch, r.filter)
    /\ hist' = [hist EXCEPT ![ch] = Append(@, UpdateOp(sample))]
    /\ outs' = [outs EXCEPT ![ch] = Append(@, r.result)]
    /\ prev' = flt
    /\ last' = <<"Update", ch, sample, r.result>>
    /\ UNCHANGED <<origin, test>>

\* flt[ch].Reset()
DoReset(ch) ==
    /\ flt' = Store(flt, ch, Reset(flt[ch]))
    /\ hist' = [hist EXCEPT ![ch] = Append(@, ResetOp)]
    /\ prev' = flt
    /\ last' = <<"Reset", ch>>
    /\ UNCHANGED <<origin, outs, test>>

\* flt[ch] = MakeLowPass(cutoffHz, sampleRateHz, q)
DoMakeLowPass(ch, cutoffHz, sampleRateHz, q) ==
    /\ flt' = Store(flt, ch, MakeLowPass(cutoffHz, sampleRateHz, q))
    /\ origin' = [origin EXCEPT ![ch] = <<"MakeLowPass", cutoffHz, sampleRateHz, q>>]
    /\ prev' = flt
    /\ last' = <<"MakeLowPass", ch>>
    /\ UNCHANGED <<hist, outs, test>>

\* flt[ch].field = v: the fields are public, a caller may assign any of them
\* at any time.
DoWrite(ch, field, v) ==
    /\ flt' = Store(flt, ch, [flt[ch] EXCEPT ![field] = v])
    /\ hist' = [hist EXCEPT ![ch] = Append(@, WriteOp(field, v))]
    /\ prev' = flt
    /\ last' = <<"Write", ch, field, v>>
    /\ UNCHANGED <<origin, outs, test>>

Fresh(chans, t) ==
    /\ flt = [c \in chans |-> BiquadFilter]
    /\ origin = [c \in chans |-> <<"BiquadFilter">>]
    /\ hist = [c \in chans |-> <<>>]
    /\ outs = [c \in chans |-> <<>>]
    /\ prev = flt
    /\ last = <<"Construct">>
    /\ test = t

(***************************************************************************)
(* Spec: one instance, built by its default initializers or by             *)
(* MakeLowPass, then Update, Reset and field writes in any order, up to    *)
(* MaxSteps steps of which at most MaxWrites are field writes.             *)
(***************************************************************************)
Init == Fresh({1}, "explore")

Untouched == origin[1][1] = "BiquadFilter" /\ hist[1] = <<>>

MakeLowPassCall ==
    \E c \in ExploreCutoffs, r \in ExploreRates, q \in ExploreQs :
        Untouched /\ DoMakeLowPass(1, c, r, q)

WriteCall ==
    \E field \in Fields, v \in FieldValues :
        /\ Len(hist[1]) < MaxSteps
        /\ Writes(hist[1]) < MaxWrites
        /\ DoWrite(1, field, v)

UpdateCall == \E s \in Samples : Len(hist[1]) < MaxSteps /\ DoUpdate(1, s)

ResetCall == Len(hist[1]) < MaxSteps /\ DoReset(1)

Next == MakeLowPassCall \/ WriteCall \/ UpdateCall \/ ResetCall

Spec == Init /\ [][Next]_vars

(***************************************************************************)
(* SpecPair: two instances, each built and driven on its own.              *)
(***************************************************************************)
InitPair == Fresh({1, 2}, "pair")

\* q = 0.707 and q = 0 (a division by zero in the designer)
PairQs == {F0707, FZero}

PairSteps == Len(hist[1]) + Len(hist[2])

PairMake ==
    \E ch \in Chans, q \in PairQs :
        /\ origin[ch][1] = "BiquadFilter"
        /\ hist[ch] = <<>>
        /\ DoMakeLowPass(ch, F12, F200, q)

PairUpdate ==
    \E ch \in Chans, s \in PairSamples :
        PairSteps < MaxPairSteps /\ DoUpdate(ch, s)

PairReset == \E ch \in Chans : PairSteps < MaxPairSteps /\ DoReset(ch)

NextPair == PairMake \/ PairUpdate \/ PairReset

SpecPair == InitPair /\ [][NextPair]_vars

(***************************************************************************)
(* SpecTest: the three test functions of tests/test_filters.cpp, each on   *)
(* its own filter, as main() runs them.                                    *)
(***************************************************************************)
StepCount == 200

ZeroCount == 50

Tests == {"TestCoefficientsFinite", "TestStepResponse", "TestZeroInput"}

InitTest == \E t \in Tests : Fresh({1}, t)

IsReference(o) == o = <<"MakeLowPass", F12, F200, F0707>>

\* BiquadFilter filter = MakeLowPass(12.0f, 200.0f, 0.707f);
TestMake == Untouched /\ DoMakeLowPass(1, F12, F200, F0707)

\* for (int i = 0; i < 200; ++i) output = filter.Update(1.0f);
StepFeed ==
    /\ test = "TestStepResponse"
    /\ origin[1][1] = "MakeLowPass"
    /\ Len(hist[1]) < StepCount
    /\ DoUpdate(1, FOne)

\* for (int i = 0; i < 50; ++i) output = filter.Update(0.0f);
ZeroFeed ==
    /\ test = "TestZeroInput"
    /\ origin[1][1] = "MakeLowPass"
    /\ Len(hist[1]) < ZeroCount
    /\ DoUpdate(1, FZero)

NextTest == TestMake \/ StepFeed \/ ZeroFeed

SpecTest == InitTest /\ [][NextTest]_vars

(***************************************************************************)
(* SpecRun: a caller that builds one filter with MakeLowPass and calls     *)
(* Update on it with a constant input for many samples: 1.0f StepCount     *)
(* times and then 0.0f ZeroCount times, or 0.0f ZeroCount times from the   *)
(* start.                                                                  *)
(***************************************************************************)
InitRun == Fresh({1}, "run")

\* The filter has been fed 1.0f and nothing else so far.
OnlyOnes(h) == \A i \in 1..Len(h) : h[i] = UpdateOp(FOne)

\* The number of Update(0.0f) calls in a history.
ZerosFed(h) == Cardinality({i \in 1..Len(h) : h[i] = UpdateOp(FZero)})

\* BiquadFilter filter = MakeLowPass(cutoffHz, sampleRateHz, q);
RunMake ==
    \E c \in Cutoffs, r \in Rates, q \in Qs :
        Untouched /\ DoMakeLowPass(1, c, r, q)

\* filter.Update(1.0f), up to StepCount times from the start
RunOnes ==
    /\ origin[1][1] = "MakeLowPass"
    /\ Len(hist[1]) < StepCount
    /\ OnlyOnes(hist[1])
    /\ DoUpdate(1, FOne)

\* filter.Update(0.0f), up to ZeroCount times, from the start or after
\* StepCount calls of Update(1.0f)
RunZeros ==
    /\ origin[1][1] = "MakeLowPass"
    /\ Len(hist[1]) - ZerosFed(hist[1]) \in {0, StepCount}
    /\ ZerosFed(hist[1]) < ZeroCount
    /\ DoUpdate(1, FZero)

NextRun == RunMake \/ RunOnes \/ RunZeros

SpecRun == InitRun /\ [][NextRun]_vars

(***************************************************************************)
(* Properties.                                                             *)
(***************************************************************************)
AllFinite(f) == \A x \in {f.b0, f.b1, f.b2, f.a1, f.a2} : IsFinite(x)

Poisoned(f) == ~IsFinite(f.z1) \/ ~IsFinite(f.z2)

FinitelyFed(h) ==
    \A i \in 1..Len(h) : h[i].op = "Update" => IsFinite(h[i].sample)

OnlyZeros(h) == \A i \in 1..Len(h) : h[i] = UpdateOp(FZero)

\* C1: Update(sample) returns result = sample*b0 + z1 and leaves
\* z1' = sample*b1 + z2 - a1*result, z2' = sample*b2 - a2*result, all read from
\* the state before the call; the five coefficients are unchanged.
C1_UpdateContract ==
    last[1] = "Update" =>
        LET p == prev[last[2]]
            f == flt[last[2]]
            sample == last[3]
            result == last[4]
        IN  /\ result = FAdd(FMul(sample, p.b0), p.z1)
            /\ f.z1 = FSub(FAdd(FMul(sample, p.b1), p.z2), FMul(p.a1, result))
            /\ f.z2 = FSub(FMul(sample, p.b2), FMul(p.a2, result))
            /\ Coefs(f) = Coefs(p)

\* An Update(1.0f) on the reference low-pass whose delay state was already
\* non-zero: the second Update returns 0x3dff5895 = 0.124680676.
C1_Witness ==
    /\ last = <<"Update", 1, FOne, F(0, 123, 8345749)>>
    /\ IsReference(origin[1])
    /\ ~IsZero(prev[1].z1) /\ ~IsZero(prev[1].z2)
    /\ ~Poisoned(flt[1])

\* C2: after any calls, Reset leaves z1 = z2 = 0 and the coefficients as they
\* were, and a second Reset changes nothing.
C2_ResetContract ==
    last[1] = "Reset" =>
        LET p == prev[last[2]]
            f == flt[last[2]]
        IN  /\ f.z1 = FZero /\ f.z2 = FZero
            /\ Coefs(f) = Coefs(p)
            /\ Reset(f) = f

\* A Reset of a filter whose two delay registers were both non-zero.
C2_Witness ==
    /\ last[1] = "Reset"
    /\ ~IsZero(prev[1].z1) /\ ~IsZero(prev[1].z2)
    /\ Len(hist[1]) >= 2

\* C3 as stated: a default-constructed filter whose fields are not overwritten
\* has b0 = 1, the rest 0, and whatever it is fed, every Update(x) returns x
\* and z1 = z2 = 0 always.
C3_PassThroughAnyInput ==
    (origin[1][1] = "BiquadFilter" /\ Writes(hist[1]) = 0) =>
        /\ Coefs(flt[1]) = <<FOne, FZero, FZero, FZero, FZero>>
        /\ FEq(flt[1].z1, FZero) /\ FEq(flt[1].z2, FZero)
        /\ (hist[1] = <<>> => flt[1].z1 = FZero /\ flt[1].z2 = FZero)
        /\ (last[1] = "Update" => FEq(last[4], last[3]))

\* C3 amended: the same for a default-constructed filter fed finite inputs.
C3_PassThroughFiniteInput ==
    (origin[1][1] = "BiquadFilter" /\ Writes(hist[1]) = 0
        /\ FinitelyFed(hist[1])) =>
        /\ Coefs(flt[1]) = <<FOne, FZero, FZero, FZero, FZero>>
        /\ FEq(flt[1].z1, FZero) /\ FEq(flt[1].z2, FZero)
        /\ (hist[1] = <<>> => flt[1].z1 = FZero /\ flt[1].z2 = FZero)
        /\ (last[1] = "Update" => FEq(last[4], last[3]))

\* The default filter after Update(1.0f), Reset, Update(FLT_MAX).
C3_Witness ==
    /\ origin[1][1] = "BiquadFilter"
    /\ Len(hist[1]) = 3
    /\ hist[1][1] = UpdateOp(FOne)
    /\ hist[1][2] = ResetOp
    /\ last = <<"Update", 1, FltMax, FltMax>>

\* The raw RBJ coefficients of C4, from the arguments of the call.
CosOmega(c, r) == cosf(FMul(FMul(FTwo, PiF), FDiv(c, r)))

Alpha(c, r, q) == FDiv(sinf(FMul(FMul(FTwo, PiF), FDiv(c, r))), FMul(FTwo, q))

\* C4: MakeLowPass stores b0 = ((1-cosOmega)/2)/(1+alpha),
\* b1 = (1-cosOmega)/(1+alpha), b2 = b0, a1 = (-2*cosOmega)/(1+alpha),
\* a2 = (1-alpha)/(1+alpha), which stay as stored until a caller overwrites a
\* field; there is no a0 field.
C4_NormalizedCoefficients ==
    \A ch \in Chans :
        (origin[ch][1] = "MakeLowPass" /\ Writes(hist[ch]) = 0) =>
            LET co == CosOmega(origin[ch][2], origin[ch][3])
                al == Alpha(origin[ch][2], origin[ch][3], origin[ch][4])
                a0 == FAdd(FOne, al)
            IN  /\ flt[ch].b0 = FDiv(FDiv(FSub(FOne, co), FTwo), a0)
                /\ flt[ch].b1 = FDiv(FSub(FOne, co), a0)
                /\ flt[ch].b2 = FDiv(FDiv(FSub(FOne, co), FTwo), a0)
                /\ flt[ch].a1 = FDiv(FMul(FMinusTwo, co), a0)
                /\ flt[ch].a2 = FDiv(FSub(FOne, al), a0)
                /\ DOMAIN flt[ch] = Fields

\* MakeLowPass(12, 200, 0.707) as the build computes it:
\* b0 = b2 = 0x3ce43858, b1 = 0x3d643858, a1 = 0xbfbcdb0a, a2 = 0x3f163d1e.
C4_Witness ==
    /\ IsReference(origin[1])
    /\ Coefs(flt[1]) = <<F(0, 121, 6568024), F(0, 122, 6568024),
                         F(0, 121, 6568024), F(1, 127, 3988234),
                         F(0, 126, 1457438)>>
    /\ last[1] = "Update"

\* Finite arguments with sampleRateHz > 0, q > 0 and 0 < cutoffHz < sampleRateHz/2.
ValidDesign(c, r, q) ==
    /\ IsFinite(c) /\ IsFinite(r) /\ IsFinite(q)
    /\ FGt(r, FZero) /\ FGt(q, FZero)
    /\ FGt(c, FZero) /\ FLt(c, FDiv(r, FTwo))

\* C5: for such arguments all five coefficients MakeLowPass returns are finite.
C5_FiniteCoefficients ==
    (origin[1][1] = "MakeLowPass" /\ Writes(hist[1]) = 0
        /\ ValidDesign(origin[1][2], origin[1][3], origin[1][4]))
    => AllFinite(flt[1])

\* C6: the 200th Update(1.0f) on MakeLowPass(12, 200, 0.707) returns a value
\* strictly between 0.9 and 1.1.
C6_StepResponseSettles ==
    (test = "TestStepResponse" /\ Len(outs[1]) >= StepCount) =>
        FGt(outs[1][StepCount], F09) /\ FLt(outs[1][StepCount], F11)

\* The step loop has just ended, with output 0x3f800004 = 1.00000048.
C6_Witness ==
    /\ test = "TestStepResponse"
    /\ Len(outs[1]) = StepCount
    /\ last = <<"Update", 1, FOne, F(0, 127, 4)>>

\* 1e-5f
F1em5 == F(0, 110, 2606508)

\* The reference low-pass after StepCount calls of Update(1.0f) followed by
\* ZeroCount calls of Update(0.0f).
Decayed ==
    /\ IsReference(origin[1])
    /\ Len(hist[1]) = StepCount + ZeroCount
    /\ OnlyOnes(SubSeq(hist[1], 1, StepCount))
    /\ OnlyZeros(SubSeq(hist[1], StepCount + 1, StepCount + ZeroCount))

\* C7 as stated: after the 200 Update(1.0f), the 50th Update(0.0f) returns a
\* value of magnitude below 1e-6.
C7_DecayBelow1em6 ==
    Decayed => FLt(FAbs(outs[1][StepCount + ZeroCount]), F1em6)

\* C7 amended: that value has magnitude below 1e-5.
C7_DecayBelow1em5 ==
    Decayed => FLt(FAbs(outs[1][StepCount + ZeroCount]), F1em5)

\* The 50th zero-input output after the step: 0x362f8798 = 2.6155958e-06.
C7_Witness ==
    /\ Decayed
    /\ last = <<"Update", 1, FZero, F(0, 108, 3114904)>>
    /\ ~IsZero(prev[1].z1)

\* C8: a filter fresh from MakeLowPass has z1 = z2 = 0; fed only 0.0 with
\* finite coefficients, every Update returns 0 and leaves z1 = z2 = 0; the 50th
\* such output of MakeLowPass(12, 200, 0.707) is below 1e-6 in magnitude.
C8_ZeroInputFixedPoint ==
    (origin[1][1] = "MakeLowPass" /\ OnlyZeros(hist[1])) =>
        /\ (hist[1] = <<>> => flt[1].z1 = FZero /\ flt[1].z2 = FZero)
        /\ (AllFinite(flt[1]) =>
                /\ FEq(flt[1].z1, FZero) /\ FEq(flt[1].z2, FZero)
                /\ \A i \in 1..Len(outs[1]) : FEq(outs[1][i], FZero))
        /\ ((IsReference(origin[1]) /\ Len(outs[1]) = ZeroCount) =>
                FLt(FAbs(outs[1][ZeroCount]), F1em6))

\* ZeroCount calls of Update(0.0f) on the fresh reference filter.
C8_Witness ==
    /\ IsReference(origin[1])
    /\ OnlyZeros(hist[1])
    /\ Len(outs[1]) = ZeroCount
    /\ last[1] = "Update" /\ IsZero(last[4])

\* C9: two instances built alike and given the same calls have returned the
\* same values and are in the same state; a call on one leaves the other as
\* it was.
C9_IndependentInstances ==
    /\ (test = "pair" /\ origin[1] = origin[2] /\ hist[1] = hist[2]) =>
           flt[1] = flt[2] /\ outs[1] = outs[2]
    /\ (test = "pair" /\ last[1] # "Construct") =>
           \A c \in Chans \ {last[2]} : flt[c] = prev[c]

\* Both instances are the reference low-pass and each got Update(1.0f) twice.
C9_Witness ==
    /\ test = "pair"
    /\ IsReference(origin[1]) /\ IsReference(origin[2])
    /\ hist[1] = <<UpdateOp(FOne), UpdateOp(FOne)>>
    /\ hist[2] = hist[1]
    /\ flt[1].z1 = flt[2].z1 /\ ~IsZero(flt[1].z1)

\* C10: with a non-finite coefficient every Update leaves z1 or z2 non-finite,
\* so the delay state stays poisoned from Update to Update; Reset puts
\* z1 = z2 = 0 and keeps the coefficients, non-finite ones included.
C10_PoisonUntilReset ==
    /\ (last[1] = "Update" /\ ~AllFinite(prev[last[2]])) => Poisoned(flt[last[2]])
    /\ (last[1] = "Reset" /\ ~AllFinite(prev[last[2]])) =>
           /\ flt[last[2]].z1 = FZero /\ flt[last[2]].z2 = FZero
           /\ Coefs(flt[last[2]]) = Coefs(prev[last[2]])

\* MakeLowPass with q = 0, poisoned by a finite input, Reset, and poisoned
\* again by the next finite input.
C10_Witness ==
    /\ origin[1][1] = "MakeLowPass" /\ IsZero(origin[1][4])
    /\ Len(hist[1]) = 3
    /\ hist[1][1].op = "Update" /\ hist[1][2] = ResetOp
    /\ last[1] = "Update" /\ IsFinite(last[3])
    /\ ~Poisoned(prev[1]) /\ Poisoned(flt[1])
====
